---- MODULE Spec2Model ----
(***************************************************************************)
(* EdgeLint: the analyzeWorkerCode tool of src/src/tools.ts.               *)
(*                                                                         *)
(* A source text is a TLA+ string; String.prototype.includes and the two   *)
(* regular expressions of the analyzer are computed character by           *)
(* character over it.  A finding is a record [severity, title,             *)
(* description]; the report is the string the tool returns.  The pictographs *)
(* that precede the section labels and the all-clear message in the source *)
(* are outside the character set of TLA+ strings and are written as the    *)
(* bracketed names of the Glyph definitions.                               *)
(***************************************************************************)
EXTENDS Integers, Sequences, FiniteSets, TLC

VARIABLES
    pc,         \* position of the tool call: "called", "returned", "rejected"
    arg,        \* the arguments of the call: [code |-> value, filename |-> value]
    log,        \* what console.log printed during the call
    issues,     \* the findings list of the call (tools.ts:124)
    result,     \* the string the call returned
    history,    \* the completed calls of the session, oldest first
    running,    \* the invocations in flight at once, each with its own locals
    sched       \* a scheduleTask call, the agent's schedule and the chat messages

vars == <<pc, arg, log, issues, result, history, running, sched>>

----------------------------------------------------------------------------
(* JavaScript values that reach the tool as arguments. *)

Str(s) == [type |-> "string", value |-> s]

Undefined == [type |-> "undefined"]

Null == [type |-> "null"]

Num(n) == [type |-> "number", value |-> n]

IsString(v) == v.type = "string"

----------------------------------------------------------------------------
(* String.prototype.includes and the character classes of the regular      *)
(* expressions.                                                            *)

\* p occurs in t at (1-based) position i
MatchesAt(t, p, i) == i >= 1 /\ i + Len(p) - 1 <= Len(t) /\ SubSeq(t, i, i + Len(p) - 1) = p

\* t.includes(p)
Includes(t, p) ==
    LET n == Len(p)
        last == Len(t) - n + 1
    IN  \E i \in 1..last : SubSeq(t, i, i + n - 1) = p

\* \s of a JavaScript regular expression, over the characters of the model
WhiteSpace == {" ", "\n", "\t", "\r", "\f"}

\* the line terminators after which ^ matches under the m flag
LineTerminators == {"\n", "\r"}

\* \w of a JavaScript regular expression
WordChars ==
    {"a", "b", "c", "d", "e", "f", "g", "h", "i", "j", "k", "l", "m",
     "n", "o", "p", "q", "r", "s", "t", "u", "v", "w", "x", "y", "z",
     "A", "B", "C", "D", "E", "F", "G", "H", "I", "J", "K", "L", "M",
     "N", "O", "P", "Q", "R", "S", "T", "U", "V", "W", "X", "Y", "Z",
     "0", "1", "2", "3", "4", "5", "6", "7", "8", "9", "_"}

\* t.charAt(i - 1): the character at position i, "" outside the text
CharAt(t, i) == IF i >= 1 /\ i <= Len(t) THEN SubSeq(t, i, i) ELSE ""

\* the first position >= i of t whose character is not in class (Len(t) + 1 if none)
RECURSIVE SkipClass(_, _, _)
SkipClass(t, i, class) ==
    IF i <= Len(t) /\ CharAt(t, i) \in class THEN SkipClass(t, i + 1, class) ELSE i

\* ^ under the m flag: the start of the text or just after a line terminator
AtLineStart(t, i) == i = 1 \/ (i > 1 /\ CharAt(t, i - 1) \in LineTerminators)

\* \s+\w+\s*= matches t from position i
DeclarationTailAt(t, i) ==
    LET a == SkipClass(t, i, WhiteSpace)
        b == SkipClass(t, a, WordChars)
        c == SkipClass(t, b, WhiteSpace)
    IN  a > i /\ b > a /\ MatchesAt(t, "=", c)

\* code.match(/^(let|var|const)\s+\w+\s*=/m) is not null
MatchesTopLevelDeclaration(t) ==
    \E i \in 1..Len(t) :
        /\ AtLineStart(t, i)
        /\ \E kw \in {"let", "var", "const"} :
              MatchesAt(t, kw, i) /\ DeclarationTailAt(t, i + Len(kw))

\* code.match(/async\s+\w+/g) is not null
MatchesAsyncFunction(t) ==
    \E i \in 1..Len(t) :
        /\ MatchesAt(t, "async", i)
        /\ LET a == SkipClass(t, i + Len("async"), WhiteSpace)
           IN  a > i + Len("async") /\ a <= Len(t) /\ CharAt(t, a) \in WordChars

----------------------------------------------------------------------------
(* The rule catalog: the lists and the trigger of every check of execute.  *)

nodeAPIs ==
    <<"fs", "path", "crypto", "os", "process", "child_process",
      "cluster", "dns", "http", "https", "net", "tls", "stream",
      "buffer", "events", "util", "url", "querystring", "zlib">>

blockingOps ==
    <<[pattern |-> "readFileSync", fix |-> "Use KV.get() or R2 fetch with await"],
      [pattern |-> "writeFileSync", fix |-> "Use KV.put() or R2 put with await"],
      [pattern |-> "execSync", fix |-> "Not supported - rethink your architecture"],
      [pattern |-> "readSync", fix |-> "Use async operations with await"]>>

\* the earlier variant of the check: single-quote delimiters only
ReferencesModuleSingleQuoted(code, api) ==
    \/ Includes(code, "from '" \o api \o "'")
    \/ Includes(code, "require('" \o api \o "')")

ReferencesModule(code, api) ==
    \/ Includes(code, "from '" \o api \o "'")
    \/ Includes(code, "from \"" \o api \o "\"")
    \/ Includes(code, "require('" \o api \o "')")
    \/ Includes(code, "require(\"" \o api \o "\")")

NodeApiIssue(api) ==
    [severity |-> "CRITICAL",
     title |-> "Node.js '" \o api \o "' module not available",
     description |-> "Workers run in V8 isolates without Node.js APIs. Replace '"
                     \o api \o "' with Workers-compatible alternatives."]

UsesBlockingOp(code, op) == Includes(code, op.pattern)

BlockingOpIssue(op) ==
    [severity |-> "CRITICAL",
     title |-> "Synchronous operation: " \o op.pattern \o "()",
     description |-> "Blocking operations hurt edge performance. " \o op.fix]

UsesTimers(code) == Includes(code, "setTimeout") \/ Includes(code, "setInterval")

TimerIssue ==
    [severity |-> "WARNING",
     title |-> "Timers not supported in Workers",
     description |-> "setTimeout/setInterval won't work. Use Durable Objects Alarms for scheduled tasks, or Workflows for delayed execution."]

\* the warning given without looking for the default export
HasGlobalStateWithoutExport(code) ==
    MatchesTopLevelDeclaration(code)

HasGlobalState(code) ==
    MatchesTopLevelDeclaration(code) /\ Includes(code, "export default")

GlobalStateIssue ==
    [severity |-> "WARNING",
     title |-> "Potential global state detected",
     description |-> "Workers are stateless. Global variables reset between requests. Use Durable Objects or KV for persistence."]

\* the warning withheld only when both try and catch occur
MissingErrorHandlingUnlessBoth(code) ==
    MatchesAsyncFunction(code) /\ (~Includes(code, "try") \/ ~Includes(code, "catch"))

MissingErrorHandling(code) ==
    MatchesAsyncFunction(code) /\ ~Includes(code, "try") /\ ~Includes(code, "catch")

ErrorHandlingIssue ==
    [severity |-> "WARNING",
     title |-> "Missing error handling",
     description |-> "Async operations should be wrapped in try-catch blocks to handle failures gracefully."]

\* the default export looked for as an exported function only
MissingDefaultExportFunction(code) == ~Includes(code, "export default function")

MissingDefaultExport(code) == ~Includes(code, "export default")

\* the missing default export reported as a suggestion
DefaultExportIssueAsInfo ==
    [severity |-> "INFO",
     title |-> "Missing default export",
     description |-> "Workers require a default export with a fetch handler: export default { async fetch(request, env, ctx) {...} }"]

DefaultExportIssue ==
    [severity |-> "ERROR",
     title |-> "Missing default export",
     description |-> "Workers require a default export with a fetch handler: export default { async fetch(request, env, ctx) {...} }"]

\* the handler looked for in its spaced spelling only
MissingFetchHandlerSpacedOnly(code) == ~Includes(code, "fetch (")

MissingFetchHandler(code) == ~Includes(code, "fetch(") /\ ~Includes(code, "fetch (")

FetchHandlerIssue ==
    [severity |-> "ERROR",
     title |-> "No fetch handler found",
     description |-> "Workers need a fetch() method to handle HTTP requests."]

\* the suggestion made for every one-argument call, whatever else the text holds
MissingEnvParameterAnyOneArgument(code) ==
    Includes(code, "fetch(request)")

MissingEnvParameter(code) ==
    Includes(code, "fetch(request)") /\ ~Includes(code, "fetch(request, env")

EnvParameterIssue ==
    [severity |-> "INFO",
     title |-> "Missing env parameter",
     description |-> "Add env parameter to access bindings (KV, R2, D1, etc.): fetch(request, env, ctx)"]

MissingResponse(code) == Includes(code, "return ") /\ ~Includes(code, "Response")

ResponseIssue ==
    [severity |-> "INFO",
     title |-> "Consider using Response objects",
     description |-> "Return proper Response objects with status codes and headers for better HTTP handling."]

\* the suggestion made without looking for waitUntil
MissingWaitUntilNotLookedFor(code) ==
    Includes(code, "await") \/ Includes(code, "fetch(")

\* the suggestion triggered by await only
MissingWaitUntilAwaitOnly(code) ==
    Includes(code, "await") /\ ~Includes(code, "waitUntil")

MissingWaitUntil(code) ==
    (Includes(code, "await") \/ Includes(code, "fetch(")) /\ ~Includes(code, "waitUntil")

WaitUntilIssue ==
    [severity |-> "INFO",
     title |-> "Consider using ctx.waitUntil()",
     description |-> "For background tasks that can complete after responding, use ctx.waitUntil() to keep the Worker alive."]

----------------------------------------------------------------------------
(* The analyzer: every check of execute, in the order of the source, each  *)
(* pushing onto the list the checks before it left.                        *)

\* if (cond) issues.push(issue)
PushIf(cond, issue, found) == IF cond THEN Append(found, issue) ELSE found

\* a list that outlives the call: the findings of the previous call
StaleIssues == issues

\* const issues = []
NewIssues == <<>>

\* nodeAPIs.forEach(api => { if (...) issues.push(...) }), from entry k on
RECURSIVE EachNodeApi(_, _, _)
EachNodeApi(code, k, found) ==
    IF k > Len(nodeAPIs) THEN found
    ELSE EachNodeApi(code, k + 1,
            PushIf(ReferencesModule(code, nodeAPIs[k]), NodeApiIssue(nodeAPIs[k]), found))

\* the list of modules walked from its last entry to its first
AfterNodeApisReversed(code, found) ==
    LET forward == EachNodeApi(code, 1, <<>>)
    IN  found \o [k \in 1..Len(forward) |-> forward[Len(forward) + 1 - k]]

AfterNodeApis(code, found) == EachNodeApi(code, 1, found)

\* blockingOps.forEach(({ pattern, fix }) => { if (...) issues.push(...) }), from entry k on
RECURSIVE EachBlockingOp(_, _, _)
EachBlockingOp(code, k, found) ==
    IF k > Len(blockingOps) THEN found
    ELSE EachBlockingOp(code, k + 1,
            PushIf(UsesBlockingOp(code, blockingOps[k]), BlockingOpIssue(blockingOps[k]), found))

AfterBlockingOps(code, found) == EachBlockingOp(code, 1, found)

\* the absence checks chained with else: a missing export hides a missing handler
AfterAbsenceChecksChained(code, found) ==
    IF MissingDefaultExport(code) THEN Append(found, DefaultExportIssue)
    ELSE PushIf(MissingFetchHandler(code), FetchHandlerIssue, found)

AfterAbsenceChecks(code, found) ==
    PushIf(MissingFetchHandler(code), FetchHandlerIssue,
        PushIf(MissingDefaultExport(code), DefaultExportIssue, found))

\* one timer warning for each of the two names
AfterWarningsTimerPerName(code, found) ==
    PushIf(MissingErrorHandling(code), ErrorHandlingIssue,
        PushIf(HasGlobalState(code), GlobalStateIssue,
            PushIf(Includes(code, "setInterval"), TimerIssue,
                PushIf(Includes(code, "setTimeout"), TimerIssue, found))))

\* the warning checks chained with else: the first that fires hides the others
AfterWarningsFirstOnly(code, found) ==
    IF UsesTimers(code) THEN Append(found, TimerIssue)
    ELSE IF HasGlobalState(code) THEN Append(found, GlobalStateIssue)
    ELSE PushIf(MissingErrorHandling(code), ErrorHandlingIssue, found)

AfterWarnings(code, found) ==
    PushIf(MissingErrorHandling(code), ErrorHandlingIssue,
        PushIf(HasGlobalState(code), GlobalStateIssue,
            PushIf(UsesTimers(code), TimerIssue, found)))

AfterSuggestions(code, found) ==
    PushIf(MissingWaitUntil(code), WaitUntilIssue,
        PushIf(MissingResponse(code), ResponseIssue,
            PushIf(MissingEnvParameter(code), EnvParameterIssue, found)))

\* the blocking calls checked before the module references
AnalyzeBlockingOpsFirst(code) ==
    AfterSuggestions(code,
        AfterAbsenceChecks(code,
            AfterWarnings(code,
                AfterNodeApis(code,
                    AfterBlockingOps(code, NewIssues)))))

\* the findings list at line 235, after every check has run on code
Analyze(code) ==
    AfterSuggestions(code,
        AfterAbsenceChecks(code,
            AfterWarnings(code,
                AfterBlockingOps(code,
                    AfterNodeApis(code, NewIssues)))))

----------------------------------------------------------------------------
(* The report formatter: the all-clear branch and the four severity        *)
(* sections of execute.                                                    *)

GlyphCheck == "[check]"

GlyphParty == "[party]"

GlyphRed == "[red]"

GlyphOrange == "[orange]"

GlyphYellow == "[yellow]"

GlyphInfo == "[info]"

AllClear ==
    GlyphCheck \o " Excellent! No major issues detected.\n"
    \o "\n"
    \o "  This code appears to be Workers-compatible and follows edge computing best practices. Great job! "
    \o GlyphParty \o "\n"
    \o "\n"
    \o "  Some optional improvements you might consider:\n"
    \o "  - Add comprehensive error handling\n"
    \o "  - Implement caching strategies\n"
    \o "  - Add request validation\n"
    \o "  - Consider rate limiting"

\* the filter reversed: the findings of one severity, last pushed first
WithSeverityReversed(found, sev) ==
    LET kept == SelectSeq(found, LAMBDA i : i.severity = sev)
    IN  [k \in 1..Len(kept) |-> kept[Len(kept) + 1 - k]]

\* issues.filter(i => i.severity === sev)
WithSeverity(found, sev) == SelectSeq(found, LAMBDA i : i.severity = sev)

\* the lower-case severity name never matches: the suggestions are dropped
InfoLowerCase(found) == WithSeverity(found, "info")

critical(found) == WithSeverity(found, "CRITICAL")

errors(found) == WithSeverity(found, "ERROR")

warnings(found) == WithSeverity(found, "WARNING")

info(found) == WithSeverity(found, "INFO")

\* the 0-based index of the forEach callback printed as it is
ItemNumberFromZero(k) == k - 1

\* ${i + 1} of the forEach callback; k is the 1-based position in the group
ItemNumber(k) == k

\* group.forEach((issue, i) => result += `\n${i + 1}. ${issue.title}\n   ${issue.description}\n`)
RECURSIVE RenderItems(_, _)
RenderItems(group, k) ==
    IF k > Len(group) THEN ""
    ELSE "\n" \o ToString(ItemNumber(k)) \o ". " \o group[k].title
         \o "\n   " \o group[k].description \o "\n"
         \o RenderItems(group, k + 1)

\* one if-block of the formatter; closing is the text appended after the items
Section(group, label, closing) ==
    IF Len(group) > 0
    THEN label \o " (" \o ToString(Len(group)) \o "):\n" \o RenderItems(group, 1) \o closing
    ELSE ""

\* the header counts the critical findings instead of all findings
HeaderCountCritical(found) == Len(critical(found))

\* ${issues.length}
HeaderCount(found) == Len(found)

\* the header naming the file of the call when one was given
HeaderNamingFile(found) ==
    "Found " \o ToString(HeaderCount(found)) \o " issue(s) in "
    \o (IF IsString(arg.filename) /\ arg.filename.value # "" THEN arg.filename.value ELSE "your code")
    \o ":\n\n"

Header(found) == "Found " \o ToString(HeaderCount(found)) \o " issue(s) in your code:\n\n"

\* the sections appended in the order in which the rules are evaluated
SectionsInRuleOrder(found) ==
    Section(critical(found), GlyphRed \o " CRITICAL ISSUES", "\n")
    \o Section(warnings(found), GlyphYellow \o " WARNINGS", "\n")
    \o Section(errors(found), GlyphOrange \o " ERRORS", "\n")
    \o Section(info(found), GlyphInfo \o " SUGGESTIONS", "")

Sections(found) ==
    Section(critical(found), GlyphRed \o " CRITICAL ISSUES", "\n")
    \o Section(errors(found), GlyphOrange \o " ERRORS", "\n")
    \o Section(warnings(found), GlyphYellow \o " WARNINGS", "\n")
    \o Section(info(found), GlyphInfo \o " SUGGESTIONS", "")

\* the formatter without the all-clear branch
FormatWithoutAllClear(found) == Header(found) \o Sections(found)

\* the all-clear message returned whenever no finding is CRITICAL
FormatAllClearWithoutCritical(found) ==
    IF Len(critical(found)) = 0 THEN AllClear ELSE Header(found) \o Sections(found)

\* lines 235-286: what execute returns for the findings list
Format(found) ==
    IF Len(found) = 0 THEN AllClear ELSE Header(found) \o Sections(found)

----------------------------------------------------------------------------
(* The inputs of the model: source texts and call arguments.               *)

MaxFrags == 2

MaxCalls == 3

MaxInvocations == 2

MaxRuns == 2

\* pieces of Worker source, each aimed at one trigger or at a near miss of one
Fragments ==
    {"export default { ",
     "async fetch(request) { ",
     "fetch(request, env, ctx) { ",
     "fetch (req) { ",
     "const n = 1;\n",
     "try { ",
     "catch (e) { ",
     "return 1; ",
     "new Response(x); ",
     "await p; ",
     "ctx.waitUntil(p); ",
     "setTimeout(f, 1); ",
     "setInterval(g, 2); ",
     "fs.readFileSync(p); ",
     "import fs from 'fs';\n"}

\* the texts made of at most n fragments, in any order and with repetition
RECURSIVE FragTexts(_)
FragTexts(n) ==
    IF n = 0 THEN {""}
    ELSE LET shorter == FragTexts(n - 1)
         IN  shorter \cup {t \o f : t \in shorter, f \in Fragments}

Quotes == {"'", "\""}

Forms == {"import", "require"}

\* one reference to module api: an import or a require with the given quote
ModuleReference(form, quote, api) ==
    IF form = "import"
    THEN "import m from " \o quote \o api \o quote \o ";\n"
    ELSE "const m = require(" \o quote \o api \o quote \o ");\n"

\* every spelling of a reference to every module of the deny-list, alone and
\* in front of a handler
ModuleTexts ==
    {ModuleReference(form, quote, nodeAPIs[k]) \o rest :
        form \in Forms, quote \in Quotes, k \in 1..Len(nodeAPIs),
        rest \in {"", "export default { fetch (req) { } }"}}

TopLines == {"", "let hits = 0;\n", "import fs from 'fs';\n", "import fs from 'fs';\nlet hits = 0;\n"}

ExportLines == {"export default {\n", "module.exports = {\n"}

SignatureLines ==
    {"async fetch(request, env, ctx) {\n",
     "async fetch(request) {\n",
     "fetch (request, env, ctx) {\n",
     "async handle(request) {\n"}

GuardLines ==
    {<<"", "">>,
     <<"try {\n", "} catch (e) { return new Response('failed'); }\n">>}

BodyLines ==
    {"return new Response('ok');\n",
     "return fs.readFileSync('x');\n",
     "ctx.waitUntil(log(request));\nreturn new Response('ok');\n",
     "setTimeout(tick, 1000);\nawait fetch(url);\n"}

\* whole Worker modules: one choice per line of the handler
HandlerTexts ==
    {t \o e \o s \o g[1] \o b \o g[2] \o "}\n};\n" :
        t \in TopLines, e \in ExportLines,
        s \in SignatureLines, g \in GuardLines, b \in BodyLines}

\* every blocking call name on its own
BlockingTexts == {blockingOps[k].pattern \o "(x)" : k \in 1..Len(blockingOps)}

\* the input of the first end-to-end scenario of the specification
Scenario1 ==
    "import fs from 'fs';\nexport default { async fetch(request) { return new Response(fs.readFileSync('x')); } }"

\* the input of the Example Usage of the README
ReadmeExample ==
    "import fs from 'fs';\n\nexport default {\n  async fetch(request) {\n"
    \o "    const data = fs.readFileSync('./config.json');\n    return new Response(data);\n  }\n}"

\* a three-parameter handler that passes the request on with a one-argument call
ForwardingHandler ==
    "export default {\n  fetch(request, env, ctx) {\n    return router.fetch(request);\n  }\n};\n"

\* the inputs the documents name, one with two CRITICAL findings and one INFO
\* finding, and the forwarding handler
ScenarioTexts ==
    {Scenario1,
     ReadmeExample,
     ForwardingHandler,
     "import fs from 'fs';\nexport default { fetch(r) { fs.readFileSync('x') } }"}

\* several modules and blocking calls in one text, in an order other than
\* that of the two lists, some referenced more than once
OrderTexts ==
    {"import z from 'zlib';\nimport p from 'path';\nimport fs from 'fs';\n"
        \o "const again = require('fs');\nexecSync(c); readFileSync(f);\n",
     "writeFileSync(a, b);\nimport http from \"http\";\nimport https from \"https\";\n"
        \o "const h = require(\"http\");\nwriteFileSync(c, d);\n",
     "readSync(fd);\nexecSync(c);\nimport { URL } from 'url';\nimport os from 'os';\n"
        \o "export default { fetch (req) { } }"}

Texts ==
    FragTexts(MaxFrags) \cup ModuleTexts \cup HandlerTexts \cup BlockingTexts \cup ScenarioTexts
    \cup OrderTexts

Filenames == {Undefined, Str(""), Str("worker.js")}

\* what a caller can pass as code that is not text
NonTexts == {Undefined, Null, Num(0)}

\* the arguments of a call: every text without a filename, and the scenario
\* texts and the values that are not text with every filename
Args ==
    {[code |-> Str(t), filename |-> Undefined] : t \in Texts}
    \cup {[code |-> c, filename |-> f] :
            c \in {Str(t) : t \in ScenarioTexts} \cup NonTexts, f \in Filenames}

\* a few texts for sessions of several calls
SessionTexts ==
    {"",
     "export default { fetch (req) { } }",
     "import fs from 'fs';\nexport default { async fetch(request) { return new Response(fs.readFileSync('x')); } }"}

SessionArgs ==
    {[code |-> Str(t), filename |-> f] : t \in SessionTexts, f \in {Undefined, Str("worker.js")}}
    \cup {[code |-> Str(""), filename |-> Str("")], [code |-> Null, filename |-> Undefined]}

----------------------------------------------------------------------------
(* The tool call.                                                          *)

\* a schema that takes any value as code: z.any() in place of z.string()
SchemaAcceptsAnyCode(a) ==
    IsString(a.filename) \/ a.filename = Undefined

\* inputSchema: z.object({ code: z.string(), filename: z.string().optional() })
SchemaAccepts(a) ==
    /\ IsString(a.code)
    /\ (IsString(a.filename) \/ a.filename = Undefined)

\* `Analyzing code${filename ? ` from ${filename}` : ''}...`
LogLine(filename) ==
    "Analyzing code"
    \o (IF IsString(filename) /\ filename.value # "" THEN " from " \o filename.value ELSE "")
    \o "..."

\* one completed call as the session keeps it: the arguments and what came back
Completed(a, outcome, found, report) ==
    [arg |-> a, outcome |-> outcome, issues |-> found, result |-> report]

Init ==
    /\ pc = "called"
    /\ arg \in Args
    /\ log = <<>>
    /\ issues = <<>>
    /\ result = ""
    /\ history = <<>>
    /\ running = <<>>
    /\ sched = <<>>

SessionInit ==
    /\ pc = "idle"
    /\ arg = [code |-> Undefined, filename |-> Undefined]
    /\ log = <<>>
    /\ issues = <<>>
    /\ result = ""
    /\ history = <<>>
    /\ running = <<>>
    /\ sched = <<>>

\* the agent calls the tool with the arguments the language model produced
Call ==
    /\ pc \in {"idle", "returned", "rejected", "threw"}
    /\ Len(history) < MaxCalls
    /\ \E a \in SessionArgs : arg' = a
    /\ pc' = "called"
    /\ UNCHANGED <<log, issues, result, history, running, sched>>

\* the arguments fail the input schema: execute is never entered
Reject ==
    /\ pc = "called"
    /\ ~SchemaAccepts(arg)
    /\ pc' = "rejected"
    /\ history' = Append(history, Completed(arg, "rejected", <<>>, ""))
    /\ UNCHANGED <<arg, log, issues, result, running, sched>>

\* execute reading the length of the match result without testing it: a text
\* without an async function makes match return null and the call throw
ExecuteThrowingWithoutAsync ==
    /\ pc = "called"
    /\ SchemaAccepts(arg)
    /\ log' = Append(log, LogLine(arg.filename))
    /\ IF IsString(arg.code) /\ MatchesAsyncFunction(arg.code.value)
       THEN /\ issues' = Analyze(arg.code.value)
            /\ result' = Format(issues')
            /\ pc' = "returned"
            /\ history' = Append(history, Completed(arg, "returned", issues', result'))
       ELSE /\ pc' = "threw"
            /\ history' = Append(history, Completed(arg, "threw", <<>>, ""))
            /\ UNCHANGED <<issues, result>>
    /\ UNCHANGED <<arg, running, sched>>

\* execute({ code, filename }) from its first line to its return. A code
\* that is not a string has no includes method: the first check throws a
\* TypeError after the log line has been written.
Execute ==
    /\ pc = "called"
    /\ SchemaAccepts(arg)
    /\ log' = Append(log, LogLine(arg.filename))
    /\ IF IsString(arg.code)
       THEN /\ issues' = Analyze(arg.code.value)
            /\ result' = Format(issues')
            /\ pc' = "returned"
            /\ history' = Append(history, Completed(arg, "returned", issues', result'))
       ELSE /\ pc' = "threw"
            /\ history' = Append(history, Completed(arg, "threw", <<>>, ""))
            /\ UNCHANGED <<issues, result>>
    /\ UNCHANGED <<arg, running, sched>>

Next == Execute \/ Reject

SessionNext == Call \/ Execute \/ Reject

Spec == Init /\ [][Next]_vars

SessionSpec == SessionInit /\ [][SessionNext]_vars

\* the arguments of the calls whose completion is followed: the empty text,
\* every fragment, the blocking and scenario texts and the values that are
\* not text, each with every filename
FairArgs ==
    {[code |-> c, filename |-> f] :
        c \in {Str(t) : t \in FragTexts(1) \cup BlockingTexts \cup ScenarioTexts} \cup NonTexts,
        f \in Filenames}

FairInit ==
    /\ pc = "called"
    /\ arg \in FairArgs
    /\ log = <<>>
    /\ issues = <<>>
    /\ result = ""
    /\ history = <<>>
    /\ running = <<>>
    /\ sched = <<>>

\* a call that has been accepted is run: execute has no await and no loop
\* other than the forEach over the two fixed lists
FairSpec == FairInit /\ [][Next]_vars /\ WF_vars(Execute)

----------------------------------------------------------------------------
(* Several invocations in flight at once.  Each invocation has its own     *)
(* code, findings list and result; its checks are taken one group at a     *)
(* time, so that the steps of different invocations interleave in every    *)
(* order, which covers invocations in one isolate and in several.          *)

Invocations == 1..MaxInvocations

ConcurrentTexts == {"export default { fetch (req) { } }", Scenario1, "setTimeout(f, 1); "}

\* the findings list of a list shared by all invocations: that of the first
IssuesOfFirst(i) == running[1].issues

\* the findings list invocation i reads and pushes to: its own local
IssuesOf(i) == running[i].issues

\* invocation i moves to position next with findings found
Advance(i, next, found) ==
    running' = [running EXCEPT ![i].pc = next, ![i].issues = found]

ConcurrentInit ==
    /\ pc = "idle"
    /\ arg = [code |-> Undefined, filename |-> Undefined]
    /\ log = <<>>
    /\ issues = <<>>
    /\ result = ""
    /\ history = <<>>
    /\ running \in [Invocations ->
            {[code |-> t, pc |-> "entered", issues |-> <<>>, result |-> "",
              alone |-> Format(Analyze(t))] : t \in ConcurrentTexts}]
    /\ sched = <<>>

\* const issues = []
Begin(i) ==
    /\ running[i].pc = "entered"
    /\ Advance(i, "nodeAPIs", NewIssues)

CheckNodeApis(i) ==
    /\ running[i].pc = "nodeAPIs"
    /\ Advance(i, "blockingOps", AfterNodeApis(running[i].code, IssuesOf(i)))

CheckBlockingOps(i) ==
    /\ running[i].pc = "blockingOps"
    /\ Advance(i, "warnings", AfterBlockingOps(running[i].code, IssuesOf(i)))

CheckWarnings(i) ==
    /\ running[i].pc = "warnings"
    /\ Advance(i, "absence", AfterWarnings(running[i].code, IssuesOf(i)))

CheckAbsence(i) ==
    /\ running[i].pc = "absence"
    /\ Advance(i, "suggestions", AfterAbsenceChecks(running[i].code, IssuesOf(i)))

CheckSuggestions(i) ==
    /\ running[i].pc = "suggestions"
    /\ Advance(i, "format", AfterSuggestions(running[i].code, IssuesOf(i)))

Return(i) ==
    /\ running[i].pc = "format"
    /\ running' = [running EXCEPT ![i].pc = "done", ![i].result = Format(IssuesOf(i))]

ConcurrentNext ==
    /\ \E i \in Invocations :
            \/ Begin(i)
            \/ CheckNodeApis(i)
            \/ CheckBlockingOps(i)
            \/ CheckWarnings(i)
            \/ CheckAbsence(i)
            \/ CheckSuggestions(i)
            \/ Return(i)
    /\ UNCHANGED <<pc, arg, log, issues, result, history, sched>>

ConcurrentSpec == ConcurrentInit /\ [][ConcurrentNext]_vars

----------------------------------------------------------------------------
(* The scheduleTask tool (tools.ts:36-65) and the callback it registers     *)
(* (server.ts:162-179).  agent.schedule belongs to the agent runtime: it    *)
(* may throw at once or hand back a promise that is later fulfilled, when   *)
(* the task is stored, or rejected.  A date is written as its text.         *)

\* the when object of the schedule schema; a field not given is undefined
When(type, date, delayInSeconds, cron) ==
    [type |-> type, date |-> date, delayInSeconds |-> delayInSeconds, cron |-> cron]

WhenInputs ==
    {When("scheduled", Str("2026-01-01T09:00:00.000Z"), Undefined, Undefined),
     When("delayed", Undefined, Num(10), Undefined),
     When("delayed", Undefined, Num(60), Undefined),
     When("delayed", Undefined, Undefined, Undefined),
     When("cron", Undefined, Undefined, Str("0 9 * * *")),
     When("no-schedule", Undefined, Undefined, Undefined),
     When("no-schedule", Undefined, Num(10), Undefined)}

Descriptions == {"", "lint the repo", "send report"}

\* a task as the agent keeps it: what schedule was called with
Task(input, callback, payload) == [when |-> input, callback |-> callback, payload |-> payload]

\* a task scheduled before the call
ExistingTask == Task(Str("0 0 * * *"), "executeTask", "nightly")

\* the test for a schedule that is none, looking for a type the schema does not have
IsNoScheduleNamedNone(when) == when.type = "none"

\* when.type === "no-schedule"
IsNoSchedule(when) == when.type = "no-schedule"

ScheduleTypes == {"scheduled", "delayed", "cron"}

\* the nested conditional that picks the field of when for its type
InputOf(when) ==
    CASE when.type = "scheduled" -> when.date
      [] when.type = "delayed" -> when.delayInSeconds
      [] when.type = "cron" -> when.cron

\* ${input} in a template
Render(v) ==
    CASE v.type = "string" -> v.value
      [] v.type = "number" -> ToString(v.value)
      [] v.type = "undefined" -> "undefined"
      [] v.type = "null" -> "null"

NotValidMessage == "Not a valid schedule input"

SuccessMessage(when, input) ==
    "Task scheduled for type \"" \o when.type \o "\" : " \o Render(input)

ErrorMessage(error) == "Error scheduling task: " \o error

\* what agent.schedule throws or rejects with, as a template renders it
ScheduleError == "Error: schedule failed"

ScheduleInit ==
    /\ pc = "idle"
    /\ arg = [code |-> Undefined, filename |-> Undefined]
    /\ log = <<>>
    /\ issues = <<>>
    /\ result = ""
    /\ history = <<>>
    /\ running = <<>>
    /\ \E w \in WhenInputs, d \in Descriptions, before \in {{}, {ExistingTask}} :
            sched = [pc |-> "called", when |-> w, description |-> d,
                     before |-> before, tasks |-> before,
                     calls |-> <<>>, promise |-> "none", returned |-> "",
                     errors |-> <<>>, messages |-> <<>>]

\* execute({ when, description }) from its first line to its return: the
\* call of agent.schedule is not awaited, so execute returns while the
\* promise, if one came back, is pending
ScheduleExecute ==
    /\ sched.pc = "called"
    /\ IF IsNoSchedule(sched.when)
       THEN sched' = [sched EXCEPT !.pc = "returned", !.returned = NotValidMessage]
       ELSE IF sched.when.type \notin ScheduleTypes
       THEN sched' = [sched EXCEPT !.pc = "threw"]
       ELSE LET input == InputOf(sched.when)
                call == Task(input, "executeTask", sched.description)
            IN  \/ sched' = [sched EXCEPT !.pc = "returned",
                                           !.calls = Append(@, call),
                                           !.errors = Append(@, "error scheduling task"),
                                           !.returned = ErrorMessage(ScheduleError)]
                \/ sched' = [sched EXCEPT !.pc = "returned",
                                           !.calls = Append(@, call),
                                           !.promise = "pending",
                                           !.returned = SuccessMessage(sched.when, input)]
    /\ UNCHANGED <<pc, arg, log, issues, result, history, running>>

\* the promise of agent.schedule is fulfilled: the task is stored
PromiseFulfilled ==
    /\ sched.promise = "pending"
    /\ sched' = [sched EXCEPT !.promise = "fulfilled",
                               !.tasks = @ \cup {sched.calls[Len(sched.calls)]}]
    /\ UNCHANGED <<pc, arg, log, issues, result, history, running>>

\* the promise of agent.schedule is rejected: nothing awaits it
PromiseRejected ==
    /\ sched.promise = "pending"
    /\ sched' = [sched EXCEPT !.promise = "rejected"]
    /\ UNCHANGED <<pc, arg, log, issues, result, history, running>>

\* Chat.executeTask(description, task): a stored task comes due
ExecuteTask ==
    /\ Len(sched.messages) < MaxRuns
    /\ \E task \in sched.tasks :
            sched' = [sched EXCEPT
                        !.messages = Append(@, "Running scheduled task: " \o task.payload)]
    /\ UNCHANGED <<pc, arg, log, issues, result, history, running>>

ScheduleNext == ScheduleExecute \/ PromiseFulfilled \/ PromiseRejected \/ ExecuteTask

ScheduleSpec == ScheduleInit /\ [][ScheduleNext]_vars

----------------------------------------------------------------------------
(* Reading a report back: what a reader of the returned string sees, line  *)
(* by line.                                                                *)

Returned == pc = "returned"

\* the source text of the call (defined once the schema has accepted it)
Code == arg.code.value

DigitChars == {"0", "1", "2", "3", "4", "5", "6", "7", "8", "9"}

DigitValue(c) == CHOOSE d \in 0..9 : ToString(d) = c

\* the decimal number written in t from position i on (acc: the digits read so far)
RECURSIVE ReadNumber(_, _, _)
ReadNumber(t, i, acc) ==
    IF i <= Len(t) /\ CharAt(t, i) \in DigitChars
    THEN ReadNumber(t, i + 1, acc * 10 + DigitValue(CharAt(t, i)))
    ELSE acc

\* the elements of a finite set of numbers, smallest first
RECURSIVE Ascending(_)
Ascending(S) ==
    IF S = {} THEN <<>>
    ELSE LET least == CHOOSE x \in S : \A y \in S : x <= y
         IN  <<least>> \o Ascending(S \ {least})

\* the lines of t: the pieces between its newline characters
LinesOf(t) ==
    LET breaks == Ascending({i \in 1..Len(t) : SubSeq(t, i, i) = "\n"})
        n == Len(breaks)
    IN  [k \in 1..(n + 1) |->
            SubSeq(t, IF k = 1 THEN 1 ELSE breaks[k - 1] + 1,
                      IF k = n + 1 THEN Len(t) ELSE breaks[k] - 1)]

Severities == <<"CRITICAL", "ERROR", "WARNING", "INFO">>

\* the words that head the section of a severity, up to its count
SectionLabel(sev) ==
    CASE sev = "CRITICAL" -> " CRITICAL ISSUES ("
      [] sev = "ERROR" -> " ERRORS ("
      [] sev = "WARNING" -> " WARNINGS ("
      [] sev = "INFO" -> " SUGGESTIONS ("

\* where in line the label of sev starts, 0 if line is not the header of sev
LabelAt(line, sev) ==
    LET label == SectionLabel(sev)
        n == Len(label)
        hits == {i \in 1..(Len(line) - n + 1) : SubSeq(line, i, i + n - 1) = label}
    IN  IF MatchesAt(line, "):", Len(line) - 1) /\ hits # {}
        THEN CHOOSE i \in hits : \A j \in hits : i <= j
        ELSE 0

\* the severity whose section line heads, "" if line is no section header
SeverityHeaded(line) ==
    IF \E k \in 1..Len(Severities) : LabelAt(line, Severities[k]) > 0
    THEN Severities[CHOOSE k \in 1..Len(Severities) : LabelAt(line, Severities[k]) > 0]
    ELSE ""

\* the count the section header line states
CountHeaded(line) ==
    ReadNumber(line, LabelAt(line, SeverityHeaded(line)) + Len(SectionLabel(SeverityHeaded(line))), 0)

\* line opens a numbered entry: digits, a full stop, a space, the title
IsEntryLine(line) ==
    CharAt(line, 1) \in DigitChars /\ MatchesAt(line, ". ", SkipClass(line, 1, DigitChars))

\* the N of the header line "Found N issue(s) in your code:", -1 if line is no header
HeaderNumber(line) ==
    IF MatchesAt(line, "Found ", 1)
          /\ CharAt(line, Len("Found ") + 1) \in DigitChars
          /\ SubSeq(line, SkipClass(line, Len("Found ") + 1, DigitChars), Len(line))
                = " issue(s) in your code:"
    THEN ReadNumber(line, Len("Found ") + 1, 0)
    ELSE -1

\* the sections of a report in the order in which it presents them: the
\* severity and the count of each header and the entries below it, each
\* entry with the number, the title and the description it is printed with
SectionsRead(report) ==
    LET lines == LinesOf(report)
        heads == SelectSeq([k \in 1..Len(lines) |-> k], LAMBDA k : SeverityHeaded(lines[k]) # "")
        until(h) == IF h = Len(heads) THEN Len(lines) ELSE heads[h + 1] - 1
        entryLines(h) ==
            SelectSeq([k \in 1..(until(h) - heads[h]) |-> heads[h] + k],
                      LAMBDA k : IsEntryLine(lines[k]))
        entry(k) ==
            [number |-> ReadNumber(lines[k], 1, 0),
             title |-> SubSeq(lines[k], SkipClass(lines[k], 1, DigitChars) + 2, Len(lines[k])),
             description |-> SubSeq(lines[k + 1], 4, Len(lines[k + 1]))]
    IN  [h \in 1..Len(heads) |->
            [severity |-> SeverityHeaded(lines[heads[h]]),
             count |-> CountHeaded(lines[heads[h]]),
             entries |-> [e \in 1..Len(entryLines(h)) |-> entry(entryLines(h)[e])]]]

\* the N of the header of a report
HeaderRead(report) == HeaderNumber(LinesOf(report)[1])

\* the positions in findings list found of the findings of severity sev
IndicesOf(found, sev) == {k \in DOMAIN found : found[k].severity = sev}

\* the titles of the findings, in order
Titles(found) == [k \in DOMAIN found |-> found[k].title]

\* the severities of the findings, in order
SeveritiesOf(found) == [k \in DOMAIN found |-> found[k].severity]

\* the finding with this title is in the list
Reported(found, title) == \E k \in DOMAIN found : found[k].title = title

\* the findings of severity sev in the order of the list, without the severity
Expected(found, sev) ==
    LET at == Ascending(IndicesOf(found, sev))
    IN  [k \in 1..Len(at) |->
            [title |-> found[at[k]].title, description |-> found[at[k]].description]]

\* the entries of a section as read, without their numbers
Unnumbered(section) ==
    [e \in 1..Len(section.entries) |->
        [title |-> section.entries[e].title, description |-> section.entries[e].description]]

----------------------------------------------------------------------------
(* The claims.                                                             *)

\* C1: for the empty source text the analyzer produces exactly two findings,
\* both ERROR: the missing default export and the missing fetch handler.
C1_EmptyTextTwoErrors ==
    (Returned /\ Code = "") =>
        /\ Titles(issues) = <<"Missing default export", "No fetch handler found">>
        /\ SeveritiesOf(issues) = <<"ERROR", "ERROR">>

C1_Witness ==
    Returned /\ Code = "" /\ Len(issues) = 2 /\ HeaderRead(result) = 2

\* C2: a report of findings presents its sections in the order CRITICAL,
\* ERROR, WARNING, INFO, and has a section for a severity exactly when the
\* list has a finding of it.
C2_SectionOrder ==
    (Returned /\ issues # <<>>) =>
        LET read == SectionsRead(result)
        IN  [h \in 1..Len(read) |-> read[h].severity]
                = SelectSeq(Severities, LAMBDA sev : IndicesOf(issues, sev) # {})

C2_Witness ==
    /\ Returned
    /\ [h \in 1..Len(SectionsRead(result)) |-> SectionsRead(result)[h].severity]
          = <<"ERROR", "WARNING">>
    /\ \E k \in DOMAIN issues, m \in DOMAIN issues :
          k < m /\ issues[k].severity = "WARNING" /\ issues[m].severity = "ERROR"

\* C3: the N of the header "Found N issue(s)" is the number of findings.
C3_HeaderCount ==
    (Returned /\ issues # <<>>) => HeaderRead(result) = Len(issues)

C3_Witness ==
    /\ Returned
    /\ Len(issues) >= 4
    /\ HeaderRead(result) = Len(issues)
    /\ Cardinality(IndicesOf(issues, "CRITICAL")) \notin {0, Len(issues)}

\* C4: zero findings give the all-clear message, never the empty string and
\* never a header "Found 0 issue(s)"; the all-clear message is given only for
\* zero findings, and a call on a text never ends otherwise than returned.
C4_AllClear ==
    /\ Returned =>
          /\ (issues = <<>>) <=> (result = AllClear)
          /\ result # ""
          /\ ~MatchesAt(result, "Found 0 issue(s)", 1)
    /\ (pc # "called" /\ SchemaAccepts(arg)) => Returned

C4_Witness ==
    Returned /\ issues = <<>> /\ result = AllClear /\ Includes(Code, "fetch")

\* the calls of the session that returned a report
ReturnedCalls == {k \in DOMAIN history : history[k].outcome = "returned"}

\* C5: in a session, two calls on the same text return the same ordered
\* findings and the same report, whatever was analyzed between or before them.
C5_SameTextSameReport ==
    \A k \in ReturnedCalls, m \in ReturnedCalls :
        history[k].arg.code = history[m].arg.code =>
            /\ history[k].issues = history[m].issues
            /\ history[k].result = history[m].result

C5_Witness ==
    /\ Len(history) = 3
    /\ ReturnedCalls = {1, 2, 3}
    /\ history[1].arg.code = history[3].arg.code
    /\ history[2].arg.code # history[1].arg.code
    /\ Len(history[2].issues) >= 3
    /\ history[1].issues # <<>>
    /\ history[3].result = history[1].result

\* C6: every rule whose own trigger holds on the text has its finding in the
\* result, whichever other rules fired.
C6_NoRuleSuppressed ==
    Returned =>
        /\ \A k \in DOMAIN nodeAPIs :
              ReferencesModule(Code, nodeAPIs[k]) => Reported(issues, NodeApiIssue(nodeAPIs[k]).title)
        /\ \A k \in DOMAIN blockingOps :
              UsesBlockingOp(Code, blockingOps[k]) => Reported(issues, BlockingOpIssue(blockingOps[k]).title)
        /\ UsesTimers(Code) => Reported(issues, TimerIssue.title)
        /\ HasGlobalState(Code) => Reported(issues, GlobalStateIssue.title)
        /\ MissingErrorHandling(Code) => Reported(issues, ErrorHandlingIssue.title)
        /\ MissingDefaultExport(Code) => Reported(issues, DefaultExportIssue.title)
        /\ MissingFetchHandler(Code) => Reported(issues, FetchHandlerIssue.title)
        /\ MissingEnvParameter(Code) => Reported(issues, EnvParameterIssue.title)
        /\ MissingResponse(Code) => Reported(issues, ResponseIssue.title)
        /\ MissingWaitUntil(Code) => Reported(issues, WaitUntilIssue.title)

C6_Witness ==
    /\ Returned
    /\ MissingDefaultExport(Code) /\ MissingFetchHandler(Code)
    /\ Reported(issues, "Missing default export")
    /\ Reported(issues, "No fetch handler found")
    /\ IndicesOf(issues, "CRITICAL") # {}
    /\ IndicesOf(issues, "WARNING") # {}

\* C7: inside a severity section the findings stand in the order in which
\* their rules were evaluated.
C7_StableWithinSection ==
    (Returned /\ issues # <<>>) =>
        LET read == SectionsRead(result)
        IN  \A h \in 1..Len(read) :
                Unnumbered(read[h]) = Expected(issues, read[h].severity)

C7_Witness ==
    /\ Returned
    /\ Cardinality(IndicesOf(issues, "CRITICAL")) >= 2
    /\ Cardinality(IndicesOf(issues, "WARNING")) >= 2
    /\ Cardinality(IndicesOf(issues, "INFO")) >= 2
    /\ Len(SectionsRead(result)[1].entries) >= 2
    /\ SectionsRead(result)[1].entries[1].title = issues[1].title
    /\ SectionsRead(result)[1].entries[2].title = issues[2].title

\* C8: a section header states the number of findings of its severity and
\* the findings of a section are numbered from 1; two CRITICAL findings and
\* one INFO finding give a CRITICAL section of 2, then an INFO section of 1,
\* and no ERROR or WARNING section.
C8_SectionCountAndNumbering ==
    (Returned /\ issues # <<>>) =>
        LET read == SectionsRead(result)
        IN  /\ \A h \in 1..Len(read) :
                  /\ read[h].count = Cardinality(IndicesOf(issues, read[h].severity))
                  /\ read[h].count = Len(read[h].entries)
                  /\ \A e \in 1..Len(read[h].entries) : read[h].entries[e].number = e
            /\ SeveritiesOf(issues) = <<"CRITICAL", "CRITICAL", "INFO">> =>
                  [h \in 1..Len(read) |-> <<read[h].severity, read[h].count>>]
                      = <<(<<"CRITICAL", 2>>), (<<"INFO", 1>>)>>

C8_Witness ==
    /\ Returned
    /\ SeveritiesOf(issues) = <<"CRITICAL", "CRITICAL", "INFO">>
    /\ Includes(result, "CRITICAL ISSUES (2):\n\n1. ")
    /\ Includes(result, "\n2. ")
    /\ Includes(result, "SUGGESTIONS (1):\n\n1. ")

\* the sum of the counts the section headers of a report state
RECURSIVE SumOfCounts(_, _)
SumOfCounts(read, h) ==
    IF h > Len(read) THEN 0 ELSE read[h].count + SumOfCounts(read, h + 1)

\* how many entries a report lists in all its sections
RECURSIVE SumOfEntries(_, _)
SumOfEntries(read, h) ==
    IF h > Len(read) THEN 0 ELSE Len(read[h].entries) + SumOfEntries(read, h + 1)

\* C9: every finding is rendered in exactly one section, and the four
\* section counts add up to the N of the header.
C9_NothingDroppedNothingTwice ==
    (Returned /\ issues # <<>>) =>
        LET read == SectionsRead(result)
        IN  /\ \A k \in DOMAIN issues :
                  Cardinality({<<h, e>> \in (1..Len(read)) \X (1..Len(issues)) :
                      /\ e <= Len(read[h].entries)
                      /\ read[h].entries[e].title = issues[k].title
                      /\ read[h].entries[e].description = issues[k].description}) = 1
            /\ SumOfEntries(read, 1) = Len(issues)
            /\ SumOfCounts(read, 1) = HeaderRead(result)

C9_Witness ==
    /\ Returned
    /\ Len(SectionsRead(result)) = Len(Severities)
    /\ SumOfCounts(SectionsRead(result), 1) = Len(issues)
    /\ Len(issues) >= 6

\* one of the four spellings of a reference to module api
Spelling(form, quote, api) ==
    IF form = "import"
    THEN "from " \o quote \o api \o quote
    ELSE "require(" \o quote \o api \o quote \o ")"

\* C10: a reference to a module of the deny-list is detected in each of its
\* four spellings: import or require, single or double quotes.
C10_QuoteAgnostic ==
    Returned =>
        \A k \in DOMAIN nodeAPIs, form \in Forms, quote \in Quotes :
            Includes(Code, Spelling(form, quote, nodeAPIs[k])) =>
                \E m \in DOMAIN issues :
                    /\ issues[m].severity = "CRITICAL"
                    /\ issues[m].title = "Node.js '" \o nodeAPIs[k] \o "' module not available"

C10_Witness ==
    /\ Returned
    /\ Includes(Code, "require(\"zlib\")")
    /\ ~Includes(Code, "'")
    /\ Reported(issues, "Node.js 'zlib' module not available")
    /\ Cardinality(IndicesOf(issues, "CRITICAL")) = 1
    /\ Includes(result, "CRITICAL ISSUES (1):\n\n1. Node.js 'zlib' module not available\n")

\* C11: for the Example Usage input of the README the report has a CRITICAL
\* section of exactly 2 findings: the 'fs' module first, readFileSync second.
C11_ReadmeExampleCritical ==
    (Returned /\ Code = ReadmeExample) =>
        LET read == SectionsRead(result)
        IN  /\ read[1].severity = "CRITICAL"
            /\ read[1].count = 2
            /\ [e \in 1..Len(read[1].entries) |-> read[1].entries[e].title]
                  = <<"Node.js 'fs' module not available", "Synchronous operation: readFileSync()">>

C11_Witness ==
    /\ Returned
    /\ Code = ReadmeExample
    /\ Includes(result, "CRITICAL ISSUES (2):\n\n1. Node.js 'fs' module not available\n")
    /\ Includes(result, "\n2. Synchronous operation: readFileSync()\n")

\* C12: on the input of scenario 1, which has no await, the finding that
\* suggests ctx.waitUntil() is not reported.
C12_NoDeferralFindingOnScenario1 ==
    (Returned /\ Code = Scenario1) =>
        (~Includes(Code, "await") /\ ~Reported(issues, "Consider using ctx.waitUntil()"))

\* the preconditions C13 lists: a default export, the three-parameter fetch
\* handler, try and catch, a Response, waitUntil, and no module of the list,
\* no blocking call name and no timer name
CorrectHandler(code) ==
    /\ Includes(code, "export default")
    /\ Includes(code, "fetch(request, env, ctx)")
    /\ Includes(code, "try")
    /\ Includes(code, "catch")
    /\ Includes(code, "Response")
    /\ Includes(code, "waitUntil")
    /\ ~Includes(code, "setTimeout")
    /\ ~Includes(code, "setInterval")
    /\ \A k \in 1..Len(blockingOps) : ~Includes(code, blockingOps[k].pattern)
    /\ \A k \in 1..Len(nodeAPIs) : \A f \in Forms : \A q \in Quotes :
            ~Includes(code, Spelling(f, q, nodeAPIs[k]))

\* C13 as stated: every text that meets the listed preconditions yields zero
\* findings and the all-clear message.
C13_CorrectHandlerAllClear_Original ==
    (Returned /\ CorrectHandler(Code)) => (issues = <<>> /\ result = AllClear)

\* C13: every text that meets the listed preconditions and has no let, var or
\* const declaration with an initializer at the start of a line yields zero
\* findings and the all-clear message.
C13_CorrectHandlerAllClear ==
    (Returned /\ CorrectHandler(Code) /\ ~MatchesTopLevelDeclaration(Code))
        => (issues = <<>> /\ result = AllClear)

C13_Witness ==
    /\ Returned
    /\ CorrectHandler(Code)
    /\ ~MatchesTopLevelDeclaration(Code)
    /\ Includes(Code, "return new Response('ok');")
    /\ result = AllClear

\* the timer finding of C14, by its title
IsTimerFinding(issue) == issue.title = "Timers not supported in Workers"

\* the rules other than the timer rule: the condition of each as the source
\* text shows it, and the title of its finding
OtherRules(code) ==
    {<<\E f \in Forms, q \in Quotes : Includes(code, Spelling(f, q, nodeAPIs[k])),
       "Node.js '" \o nodeAPIs[k] \o "' module not available">> : k \in 1..Len(nodeAPIs)}
    \cup {<<Includes(code, blockingOps[k].pattern),
            "Synchronous operation: " \o blockingOps[k].pattern \o "()">> : k \in 1..Len(blockingOps)}
    \cup {<<MatchesTopLevelDeclaration(code) /\ Includes(code, "export default"),
            "Potential global state detected">>,
          <<MatchesAsyncFunction(code) /\ ~Includes(code, "try") /\ ~Includes(code, "catch"),
            "Missing error handling">>,
          <<~Includes(code, "export default"), "Missing default export">>,
          <<~Includes(code, "fetch(") /\ ~Includes(code, "fetch ("), "No fetch handler found">>,
          <<Includes(code, "fetch(request)") /\ ~Includes(code, "fetch(request, env"),
            "Missing env parameter">>,
          <<Includes(code, "return ") /\ ~Includes(code, "Response"),
            "Consider using Response objects">>,
          <<(Includes(code, "await") \/ Includes(code, "fetch(")) /\ ~Includes(code, "waitUntil"),
            "Consider using ctx.waitUntil()">>}

\* C14: a text that contains setTimeout or setInterval, once or several
\* times, alone or together, gets exactly one timer finding, a WARNING, and
\* every other rule that fires on the text still reports its finding.
C14_OneTimerWarningAdded ==
    (Returned /\ (Includes(Code, "setTimeout") \/ Includes(Code, "setInterval"))) =>
        LET timers == {k \in DOMAIN issues : IsTimerFinding(issues[k])}
            titles == {issues[k].title : k \in DOMAIN issues}
        IN  /\ Cardinality(timers) = 1
            /\ \A k \in timers : issues[k].severity = "WARNING"
            /\ \A rule \in OtherRules(Code) : rule[1] => rule[2] \in titles

C14_Witness ==
    /\ Returned
    /\ Includes(Code, "setTimeout")
    /\ Includes(Code, "setInterval")
    /\ Cardinality({k \in DOMAIN issues : IsTimerFinding(issues[k])}) = 1
    /\ Len(issues) >= 3

\* C15: a call whose code is not text (absent, null, a number) is rejected
\* by the input validation before execute is entered: nothing is logged, no
\* rule is evaluated, no findings and no report exist.
C15_NonTextRejected ==
    (pc # "called" /\ ~IsString(arg.code)) =>
        /\ pc = "rejected"
        /\ log = <<>>
        /\ issues = <<>>
        /\ result = ""
        /\ history = <<Completed(arg, "rejected", <<>>, "")>>

C15_Witness ==
    /\ pc = "rejected"
    /\ arg.code = Null
    /\ arg.filename = Str("worker.js")
    /\ log = <<>>
    /\ result = ""

\* C16: of several invocations in flight at once, each returns, under every
\* interleaving of their steps, the report it returns when run alone.
C16_ConcurrentAsAlone ==
    \A i \in DOMAIN running :
        running[i].pc = "done" =>
            /\ running[i].result = running[i].alone
            /\ running[i].result = Format(running[i].issues)

C16_Witness ==
    /\ DOMAIN running = Invocations
    /\ running[1].pc = "done"
    /\ running[1].code = Scenario1
    /\ running[1].result = running[1].alone
    /\ running[2].pc = "suggestions"
    /\ running[2].code = "setTimeout(f, 1); "
    /\ Len(running[2].issues) = 3

\* the position in the log of the line written by call k of the session
LogIndex(k) == Cardinality({j \in ReturnedCalls : j <= k})

\* the line a call with this filename is seen to log
LoggedFor(filename) ==
    IF IsString(filename) /\ filename.value # ""
    THEN "Analyzing code from " \o filename.value \o "..."
    ELSE "Analyzing code..."

\* C17: the filename reaches the log line only: two calls on the same text
\* with different filenames, or one with and one without, return the same
\* findings and the same report.
C17_FilenameOnlyLogged ==
    \A k \in ReturnedCalls, m \in ReturnedCalls :
        (history[k].arg.code = history[m].arg.code
            /\ history[k].arg.filename # history[m].arg.filename) =>
            /\ history[k].issues = history[m].issues
            /\ history[k].result = history[m].result
            /\ log[LogIndex(k)] = LoggedFor(history[k].arg.filename)

C17_Witness ==
    /\ Len(history) >= 2
    /\ {1, 2} \subseteq ReturnedCalls
    /\ history[1].arg.code = history[2].arg.code
    /\ history[1].arg.filename = Undefined
    /\ history[2].arg.filename = Str("worker.js")
    /\ history[1].result = history[2].result
    /\ Len(history[1].issues) >= 3
    /\ log[1] # log[2]

\* the severity the rule groups give a finding, by its title
GroupSeverity(title) ==
    CASE MatchesAt(title, "Node.js '", 1) -> "CRITICAL"
      [] MatchesAt(title, "Synchronous operation: ", 1) -> "CRITICAL"
      [] title \in {"Timers not supported in Workers", "Potential global state detected",
                    "Missing error handling"} -> "WARNING"
      [] title \in {"Missing default export", "No fetch handler found"} -> "ERROR"
      [] title \in {"Missing env parameter", "Consider using Response objects",
                    "Consider using ctx.waitUntil()"} -> "INFO"
      [] OTHER -> "none"

SeverityReported(found, title) == {found[k].severity : k \in {j \in DOMAIN found : found[j].title = title}}

\* C19: as the README lists the rules, a missing default export and a
\* missing fetch handler are reported among the critical issues and a
\* missing env parameter among the warnings.
C19_ReadmeSeverities ==
    Returned =>
        /\ SeverityReported(issues, "Missing default export") \subseteq {"CRITICAL"}
        /\ SeverityReported(issues, "No fetch handler found") \subseteq {"CRITICAL"}
        /\ SeverityReported(issues, "Missing env parameter") \subseteq {"WARNING"}

\* C20: the missing-error-handling WARNING is reported exactly when the text
\* has async, whitespace and a word character in a row and contains neither
\* try nor catch; either marker alone, anywhere in the text, withholds it.
C20_ErrorHandlingExactly ==
    Returned =>
        LET tried == Includes(Code, "try")
            caught == Includes(Code, "catch")
        IN  Reported(issues, "Missing error handling")
                <=> (MatchesAsyncFunction(Code) /\ ~tried /\ ~caught)

C20_Witness ==
    /\ Returned
    /\ MatchesAsyncFunction(Code)
    /\ Includes(Code, "try")
    /\ ~Includes(Code, "catch")
    /\ ~Reported(issues, "Missing error handling")

\* C21 as stated: the missing-env-parameter INFO finding is reported
\* whenever the text contains the one-argument call fetch(request), and not
\* reported for a text without it.
C21_EnvParameter_Original ==
    Returned =>
        (Reported(issues, "Missing env parameter") <=> Includes(Code, "fetch(request)"))

\* C21: the missing-env-parameter INFO finding is reported exactly when the
\* text contains the one-argument call fetch(request) and nowhere contains
\* fetch(request, env.
C21_EnvParameter ==
    Returned =>
        LET finding == {k \in DOMAIN issues : issues[k].title = "Missing env parameter"}
        IN  /\ (finding # {}) <=>
                  (Includes(Code, "fetch(request)") /\ ~Includes(Code, "fetch(request, env"))
            /\ \A k \in finding : issues[k].severity = "INFO"

C21_Witness ==
    /\ Returned
    /\ Code = ForwardingHandler
    /\ Includes(Code, "fetch(request)")
    /\ ~Reported(issues, "Missing env parameter")

\* C22: the ctx.waitUntil INFO finding is reported exactly when the text
\* contains await or fetch( and nowhere contains waitUntil.
C22_WaitUntilExactly ==
    Returned =>
        LET finding == {k \in DOMAIN issues : issues[k].title = "Consider using ctx.waitUntil()"}
        IN  /\ (finding # {}) <=>
                  ((Includes(Code, "await") \/ Includes(Code, "fetch(")) /\ ~Includes(Code, "waitUntil"))
            /\ \A k \in finding : issues[k].severity = "INFO"

C22_Witness ==
    /\ Returned
    /\ Includes(Code, "fetch(")
    /\ ~Includes(Code, "await")
    /\ ~Includes(Code, "waitUntil")
    /\ Reported(issues, "Consider using ctx.waitUntil()")

\* C23: the global-state WARNING is reported exactly when some line starts
\* with a let, var or const declaration with an initializer and the text
\* contains export default; a top-level declaration without the marker does
\* not produce it.
C23_GlobalStateExactly ==
    Returned =>
        LET finding == {k \in DOMAIN issues : issues[k].title = "Potential global state detected"}
        IN  /\ (finding # {}) <=>
                  (MatchesTopLevelDeclaration(Code) /\ Includes(Code, "export default"))
            /\ \A k \in finding : issues[k].severity = "WARNING"

C23_Witness ==
    /\ Returned
    /\ MatchesTopLevelDeclaration(Code)
    /\ ~Includes(Code, "export default")
    /\ Includes(Code, "module.exports")
    /\ ~Reported(issues, "Potential global state detected")

\* C24: every call on a text eventually returns a report string, the
\* all-clear message or a findings report; no rule evaluation keeps the call
\* from returning.
C24_TextCallReturns ==
    (pc = "called" /\ IsString(arg.code))
        ~> (pc = "returned"
            /\ (result = AllClear \/ MatchesAt(result, "Found ", 1)))

C24_Witness ==
    /\ Returned
    /\ Code = ForwardingHandler
    /\ arg.filename = Str("worker.js")
    /\ MatchesAt(result, "Found ", 1)
    /\ history[1].outcome = "returned"

\* the titles of the findings the two lists give for a text, entry by entry
\* in the order of the lists, one for each entry the text matches
ListedModuleTitles(code) ==
    LET Referenced(api) == \E f \in Forms, q \in Quotes : Includes(code, Spelling(f, q, api))
        hit == SelectSeq(nodeAPIs, Referenced)
    IN  [k \in 1..Len(hit) |-> "Node.js '" \o hit[k] \o "' module not available"]

ListedBlockingTitles(code) ==
    LET Used(op) == Includes(code, op.pattern)
        hit == SelectSeq(blockingOps, Used)
    IN  [k \in 1..Len(hit) |-> "Synchronous operation: " \o hit[k].pattern \o "()"]

\* C25: the module and blocking-call rules give one finding for each list
\* entry the text matches, however often it is matched, in the order of the
\* lists and not of the text, all module findings before all blocking-call
\* findings.
C25_OnePerListEntryInListOrder ==
    Returned =>
        LET listed == ListedModuleTitles(Code) \o ListedBlockingTitles(Code)
            titles == Titles(issues)
            IsListed(title) == MatchesAt(title, "Node.js '", 1)
                                  \/ MatchesAt(title, "Synchronous operation: ", 1)
        IN  /\ SelectSeq(titles, IsListed) = listed
            /\ Len(titles) >= Len(listed)
            /\ SubSeq(titles, 1, Len(listed)) = listed
            /\ \A k \in 1..Len(listed) : issues[k].severity = "CRITICAL"

C25_Witness ==
    /\ Returned
    /\ Code \in OrderTexts
    /\ Len(issues) >= 5
    /\ SubSeq(Titles(issues), 1, 5)
          = <<"Node.js 'fs' module not available", "Node.js 'path' module not available",
              "Node.js 'zlib' module not available", "Synchronous operation: readFileSync()",
              "Synchronous operation: execSync()">>

\* C26: no call reports both the global-state WARNING and the
\* missing-default-export ERROR.
C26_GlobalStateExcludesMissingExport ==
    Returned =>
        ~(Reported(issues, "Potential global state detected")
            /\ Reported(issues, "Missing default export"))

C26_Witness ==
    /\ Returned
    /\ MatchesTopLevelDeclaration(Code)
    /\ Reported(issues, "Missing default export")
    /\ ~Reported(issues, "Potential global state detected")
    /\ Includes(result, "ERRORS (")

\* C27: no call reports both the missing-env-parameter INFO and the
\* no-fetch-handler ERROR; and when the missing-env-parameter INFO is
\* reported for a text without waitUntil, the ctx.waitUntil INFO is reported
\* as well.
C27_EnvParameterImplications ==
    Returned =>
        (Reported(issues, "Missing env parameter") =>
            /\ ~Reported(issues, "No fetch handler found")
            /\ (~Includes(Code, "waitUntil") => Reported(issues, "Consider using ctx.waitUntil()")))

C27_Witness ==
    /\ Returned
    /\ Reported(issues, "Missing env parameter")
    /\ ~Includes(Code, "waitUntil")
    /\ ~Includes(Code, "await")
    /\ Reported(issues, "Consider using ctx.waitUntil()")
    /\ ~Reported(issues, "No fetch handler found")

\* C28: the all-clear message is returned only for texts that contain
\* export default and a fetch marker, fetch( or fetch (; and a text that
\* gets the all-clear message and contains fetch( or await contains waitUntil.
C28_AllClearOnlyFor ==
    (Returned /\ result = AllClear) =>
        /\ Includes(Code, "export default")
        /\ (Includes(Code, "fetch(") \/ Includes(Code, "fetch ("))
        /\ ((Includes(Code, "fetch(") \/ Includes(Code, "await")) => Includes(Code, "waitUntil"))

C28_Witness ==
    /\ Returned
    /\ result = AllClear
    /\ Code \in HandlerTexts
    /\ Includes(Code, "fetch(")
    /\ Includes(Code, "waitUntil")

\* the call returned the success message
ReturnedSuccess == MatchesAt(sched.returned, "Task scheduled for type ", 1)

\* the call of agent.schedule failed: it threw, or its promise was rejected
SchedulingFailed == sched.errors # <<>> \/ sched.promise = "rejected"

\* C29: when scheduling through the agent fails, by a throw or by a
\* rejected promise, scheduleTask returns an Error scheduling task message
\* and never the success message; the success message is returned only
\* after the task has been scheduled.
C29_FailureNeverReportedAsSuccess ==
    /\ SchedulingFailed =>
          (MatchesAt(sched.returned, "Error scheduling task", 1) /\ ~ReturnedSuccess)
    /\ ReturnedSuccess =>
          (sched.promise = "fulfilled" /\ sched.calls[1] \in sched.tasks)

\* C30: a call with a schedule of type no-schedule returns Not a valid
\* schedule input and never calls agent.schedule, so no task is added; a
\* call of type scheduled, delayed or cron calls agent.schedule exactly once,
\* with the field of when for its type, the executeTask callback and the
\* description.
C30_NoScheduleNoCall ==
    sched.pc # "called" =>
        /\ sched.when.type = "no-schedule" =>
              /\ sched.pc = "returned"
              /\ sched.returned = "Not a valid schedule input"
              /\ sched.calls = <<>>
              /\ sched.promise = "none"
              /\ sched.tasks = sched.before
        /\ sched.when.type \in {"scheduled", "delayed", "cron"} =>
              /\ Len(sched.calls) = 1
              /\ sched.calls[1].callback = "executeTask"
              /\ sched.calls[1].payload = sched.description
              /\ sched.calls[1].when
                    = (IF sched.when.type = "scheduled" THEN sched.when.date
                       ELSE IF sched.when.type = "delayed" THEN sched.when.delayInSeconds
                       ELSE sched.when.cron)

C30_Witness ==
    /\ sched.pc = "returned"
    /\ sched.when.type = "no-schedule"
    /\ sched.when.delayInSeconds = Num(10)
    /\ sched.returned = "Not a valid schedule input"
    /\ sched.before = {ExistingTask}
    /\ sched.tasks = sched.before
    /\ sched.messages # <<>>

====
